---- MODULE Spec2Model ----
(***************************************************************************)
(* Model of src/src/shell.py: the ShellHelper object (trust_mode,          *)
(* max_retries, command_context), the interactive loop run_interactive     *)
(* and the recursive execute_command, whose activations are kept on an     *)
(* explicit call stack.                                                    *)
(*                                                                         *)
(* Text is modelled as a sequence of one-character strings, so that        *)
(* str.strip and str.lower are computed, not assumed.  An LLM response is   *)
(* modelled by the list of its lines: a string with k newline characters   *)
(* corresponds to exactly one list of k+1 newline-free lines, which is     *)
(* what response.split("\n") returns (never the empty list).               *)
(***************************************************************************)
EXTENDS Integers, Sequences, FiniteSets, TLC

VARIABLES
    trust_mode,       \* self.trust_mode
    max_retries,      \* self.max_retries
    command_context,  \* self.command_context
    appended,         \* every record ever passed to command_context.append, in order
    pc,               \* position of run_interactive
    task,             \* local `task` of run_interactive (already stripped)
    commands,         \* local `commands` of run_interactive
    idx,              \* position of the for loop over `commands` (1-based)
    stack,            \* activations of execute_command, outermost first
    topRuns,          \* commands of this task handed to execute_command, in order
    chainStopped,     \* a stop event (failure / declined prompt) happened in this task
    lastError,        \* what the top-level `except Exception` handler last logged
    endReason         \* why the while loop was left

vars == << trust_mode, max_retries, command_context, appended, pc, task, commands,
           idx, stack, topRuns, chainStopped, lastError, endReason >>

-----------------------------------------------------------------------------
(* Bounds of the model *)

\* longest LLM response, in lines
MaxLines == 2
\* records appended to the history in one explored session
MaxAdds == 3
\* deepest nesting of execute_command that is explored
MaxDepth == 2

(* Program constants *)

\* self.command_context[-5:]
ContextLimit == 5
\* the literal retry_count run_interactive passes
TopRetryCount == 3
\* the literal retry_count of a nested recovery call
RecoveryRetryCount == 0
\* default of the constructor's max_retries
DefaultMaxRetries == 3

-----------------------------------------------------------------------------
(* Text *)

Exit == << "e", "x", "i", "t" >>
Yes  == << "y" >>

IsSpace(c) == c \in {" ", "\t"}

LowerChar(c) ==
    CASE c = "E" -> "e"
      [] c = "X" -> "x"
      [] c = "I" -> "i"
      [] c = "T" -> "t"
      [] c = "Y" -> "y"
      [] c = "N" -> "n"
      [] OTHER   -> c

\* str.lower()
Lower(s) == [i \in 1..Len(s) |-> LowerChar(s[i])]

RECURSIVE LStrip(_)
LStrip(s) == IF s # << >> /\ IsSpace(Head(s)) THEN LStrip(Tail(s)) ELSE s

RECURSIVE RStrip(_)
RStrip(s) ==
    IF s # << >> /\ IsSpace(s[Len(s)]) THEN RStrip(SubSeq(s, 1, Len(s) - 1)) ELSE s

\* str.strip()
Strip(s) == RStrip(LStrip(s))

\* what the user may type at "What would you like to do?"
TaskInputs ==
    { Exit,
      << " ", "E", "x", "I", "T", " " >>,
      << "l", "s" >> }

\* what the user may type at a (y/n) prompt
Answers == { << "y" >>, << "Y" >>, << "n" >>, << >> }

\* the lines an LLM response is made of
Lines == { << >>, << "a" >>, << " ", "b" >> }

\* response.split("\n") of every response of at most MaxLines lines
Responses == UNION { [1..n -> Lines] : n \in 1..MaxLines }

\* exit codes a subprocess may return
ExitCodes == {0, 1}
\* rc of an activation whose subprocess produced no exit code
NoExit == -1

\* values of max_retries a ShellHelper is constructed with
MaxRetriesValues == {0, DefaultMaxRetries, DefaultMaxRetries + 1}

-----------------------------------------------------------------------------
(* Pure helpers *)

RECURSIVE SelectNonBlank(_)
\* [cmd.strip() for cmd in response.split("\n") if cmd.strip()]
SelectNonBlank(ls) ==
    IF ls = << >> THEN << >>
    ELSE IF Strip(Head(ls)) = << >> THEN SelectNonBlank(Tail(ls))
         ELSE << Strip(Head(ls)) >> \o SelectNonBlank(Tail(ls))

ParseCommands(response) == SelectNonBlank(response)

\* task.lower() == "exit"
IsExit(t) == Lower(t) = Exit

\* (variant) only an explicit "n" declines
DeclinedOnlyOnN(ans) == Lower(ans) = << "n" >>

\* input(...).lower() != "y"
Declined(ans) == Lower(ans) # Yes

\* (variant) any exit code counts as success
SucceededAnyExit(rc) == rc >= 0

\* success = result.returncode == 0
Succeeded(rc) == rc = 0

\* (variant) `>` in place of `>=`
NeedsAnalysisStrict(retry) == retry > max_retries

\* retry_count >= self.max_retries
NeedsAnalysis(retry) == retry >= max_retries

\* (variant) the `break` after a failed command is missing
ChainAlwaysContinues(ok) == TRUE

\* if success: ... else: ... break
ChainContinues(ok) == ok

\* (variant) the top-level handler leaves the while loop
ResumeLeavesLoop == "done"

\* where `except Exception` of run_interactive resumes: the body of the
\* while loop ends and the task prompt comes again
Resume == "prompt"

\* (variant) [:5] in place of [-5:]
TrimKeepFirst(ctx) ==
    IF Len(ctx) > ContextLimit THEN SubSeq(ctx, 1, ContextLimit) ELSE ctx

\* self.command_context[-5:]
Trim(ctx) ==
    IF Len(ctx) > ContextLimit
    THEN SubSeq(ctx, Len(ctx) - ContextLimit + 1, Len(ctx))
    ELSE ctx

\* the dict _add_to_context builds; datetime.now() is modelled by the
\* position `now` of the call among all calls.  The output text (stdout,
\* stderr or str(e), cut to 500 characters) is opaque data no branch reads,
\* and is left out of the record.
Record(now, command, success) ==
    [ timestamp |-> now, command |-> command, success |-> success ]

\* _add_to_context(command, output, success)
AddToContext(ctx, now, command, success) ==
    Trim(Append(ctx, Record(now, command, success)))

\* datetime.now() at the next call of _add_to_context
Now == Len(appended) + 1

\* `if not cmd.strip(): continue`: the lines left once the for loop has
\* passed the blank ones in front
RECURSIVE SkipBlank(_)
SkipBlank(ls) ==
    IF ls = << >> THEN << >>
    ELSE IF Strip(Head(ls)) = << >> THEN SkipBlank(Tail(ls))
         ELSE ls

\* the answer recorded for an activation entered without a prompt
NoPrompt == [ cmd |-> << "-" >>, ans |-> << "-" >> ]

\* a fresh activation execute_command(command, task, retry_count)
NewFrame(command, retry, approval) ==
    [ cmd      |-> command,
      retry    |-> retry,
      pc       |-> "run",
      rc       |-> NoExit,
      ok       |-> FALSE,
      msg      |-> "none",
      recovery |-> << >>,
      ran      |-> 0,
      added    |-> 0,
      analysed |-> 0,
      asked    |-> 0,
      approval |-> approval ]

Top == stack[Len(stack)]

SetTop(f) == [stack EXCEPT ![Len(stack)] = f]

\* `return ok, msg`
Return(f, ok, msg) == [f EXCEPT !.pc = "ret", !.ok = ok, !.msg = msg]

-----------------------------------------------------------------------------
(* Initial state: a constructed ShellHelper entering run_interactive *)

Init ==
    /\ trust_mode \in BOOLEAN
    /\ max_retries \in MaxRetriesValues
    /\ command_context = << >>
    /\ appended = << >>
    /\ pc = "prompt"
    /\ task = << >>
    /\ commands = << >>
    /\ idx = 0
    /\ stack = << >>
    /\ topRuns = << >>
    /\ chainStopped = FALSE
    /\ lastError = "none"
    /\ endReason = "none"

-----------------------------------------------------------------------------
(* run_interactive *)

\* the for loop reaches commands[i]: it ends, prompts (non-trust mode) or
\* calls execute_command(cmd, task, 3) directly (trust mode)
EnterLoop(cmds, i) ==
    /\ idx' = i
    /\ IF i > Len(cmds)
       THEN /\ pc' = "prompt"
            /\ stack' = << >>
            /\ UNCHANGED topRuns
       ELSE IF trust_mode
            THEN /\ pc' = "exec"
                 /\ stack' = << NewFrame(cmds[i], TopRetryCount, NoPrompt) >>
                 /\ topRuns' = Append(topRuns, cmds[i])
            ELSE /\ pc' = "confirm_one"
                 /\ stack' = << >>
                 /\ UNCHANGED topRuns

\* task = input(...).strip(); if task.lower() == "exit": break
ReadTask ==
    /\ pc = "prompt"
    /\ \E inp \in TaskInputs :
         /\ task' = Strip(inp)
         /\ IF IsExit(task')
            THEN /\ pc' = "done"
                 /\ endReason' = "exit"
            ELSE /\ pc' = "suggest"
                 /\ UNCHANGED endReason
    /\ topRuns' = << >>
    /\ chainStopped' = FALSE
    /\ lastError' = "none"
    /\ commands' = << >>
    /\ idx' = 0
    /\ UNCHANGED << trust_mode, max_retries, command_context, appended, stack >>

\* input() raises an Exception (EOFError): `except Exception` logs it and the
\* while loop goes round again
InputRaises ==
    /\ pc \in {"prompt", "confirm_all", "confirm_one"}
    /\ pc' = Resume
    /\ lastError' = "input"
    /\ UNCHANGED << trust_mode, max_retries, command_context, appended, task,
                    commands, idx, stack, topRuns, chainStopped,
                    endReason >>

\* commands = self.get_commands(task), the LLM call returning `response`
GetCommands ==
    /\ pc = "suggest"
    /\ \E response \in Responses :
         /\ commands' = ParseCommands(response)
         /\ IF commands' = << >>
            THEN /\ pc' = "prompt"
                 /\ UNCHANGED << idx, stack, topRuns >>
            ELSE IF ~trust_mode /\ Len(commands') > 1
                 THEN /\ pc' = "confirm_all"
                      /\ UNCHANGED << idx, stack, topRuns >>
                 ELSE EnterLoop(commands', 1)
    /\ UNCHANGED << trust_mode, max_retries, command_context, appended, task,
                    chainStopped, lastError, endReason >>

\* the LLM call (or the directory listing) of get_commands raises
GetCommandsRaises ==
    /\ pc = "suggest"
    /\ pc' = Resume
    /\ lastError' = "llm"
    /\ UNCHANGED << trust_mode, max_retries, command_context, appended, task,
                    commands, idx, stack, topRuns, chainStopped,
                    endReason >>

\* if input("Execute all commands? (y/n): ").lower() != "y": continue
ConfirmAll ==
    /\ pc = "confirm_all"
    /\ \E ans \in Answers :
         IF Declined(ans)
         THEN /\ pc' = "prompt"
              /\ chainStopped' = TRUE
              /\ UNCHANGED << idx, stack, topRuns >>
         ELSE /\ EnterLoop(commands, 1)
              /\ UNCHANGED chainStopped
    /\ UNCHANGED << trust_mode, max_retries, command_context, appended, task,
                    commands, lastError, endReason >>

\* if input("Execute this command? (y/n): ").lower() != "y": break
\* otherwise execute_command(cmd, task, 3) is entered
ConfirmOne ==
    /\ pc = "confirm_one"
    /\ \E ans \in Answers :
         IF Declined(ans)
         THEN /\ pc' = "prompt"
              /\ chainStopped' = TRUE
              /\ UNCHANGED << stack, topRuns >>
         ELSE /\ pc' = "exec"
              /\ stack' = << NewFrame(commands[idx], TopRetryCount,
                                      [cmd |-> commands[idx], ans |-> ans]) >>
              /\ topRuns' = Append(topRuns, commands[idx])
              /\ UNCHANGED chainStopped
    /\ UNCHANGED << trust_mode, max_retries, command_context, appended, task,
                    commands, idx, lastError, endReason >>

\* KeyboardInterrupt is no Exception: it passes every `except Exception`,
\* unwinds execute_command and ends the while loop; run_interactive returns
\* and its locals are gone
KeyboardInterrupt ==
    /\ pc # "done"
    /\ pc' = "done"
    /\ endReason' = "interrupt"
    /\ stack' = << >>
    /\ task' = << >>
    /\ commands' = << >>
    /\ idx' = 0
    /\ topRuns' = << >>
    /\ chainStopped' = FALSE
    /\ UNCHANGED << trust_mode, max_retries, command_context, appended, lastError >>

-----------------------------------------------------------------------------
(* execute_command: the activation on top of the stack takes a step *)

Running == pc = "exec" /\ stack # << >>

HelperUnchanged ==
    UNCHANGED << trust_mode, max_retries, pc, task, commands, idx,
                 topRuns, chainStopped, lastError, endReason >>

\* `except Exception as e`: self._add_to_context(command, str(e), False);
\* return False, str(e)
Handler(f) ==
    /\ Len(appended) < MaxAdds
    /\ command_context' = AddToContext(command_context, Now, f.cmd, FALSE)
    /\ appended' = Append(appended, Record(Now, f.cmd, FALSE))
    /\ stack' = SetTop(Return([f EXCEPT !.added = @ + 1], FALSE, "exception"))

\* where execute_command goes once the subprocess has exited with rc and the
\* record is appended
AfterRun(f, rc) ==
    IF Succeeded(rc)
    THEN Return(f, TRUE, "output")
    ELSE IF NeedsAnalysis(f.retry)
         THEN [f EXCEPT !.pc = "analyze"]
         ELSE Return(f, FALSE, "could_not_generate")

\* args = shlex.split(command); result = subprocess.run(args, ...);
\* success = result.returncode == 0; output = stdout if success else stderr;
\* self._add_to_context(command, output, success)
RunSubprocess ==
    /\ Running
    /\ Top.pc = "run"
    /\ Len(appended) < MaxAdds
    /\ \E rc \in ExitCodes :
         /\ command_context' =
                AddToContext(command_context, Now, Top.cmd, Succeeded(rc))
         /\ appended' = Append(appended, Record(Now, Top.cmd, Succeeded(rc)))
         /\ stack' = SetTop(AfterRun([Top EXCEPT !.rc = rc, !.added = @ + 1], rc))
    /\ HelperUnchanged

\* shlex.split raises ValueError, or subprocess.run cannot launch the program
LaunchRaises ==
    /\ Running
    /\ Top.pc = "run"
    /\ Handler(Top)
    /\ HelperUnchanged

\* analysis = analyze_error_pattern(...) returns
Analyze ==
    /\ Running
    /\ Top.pc = "analyze"
    /\ stack' = SetTop(
           IF trust_mode
           THEN [Top EXCEPT !.pc = "get_recovery", !.analysed = @ + 1]
           ELSE Return([Top EXCEPT !.analysed = @ + 1], FALSE, "error_analysis"))
    /\ UNCHANGED << command_context, appended >>
    /\ HelperUnchanged

\* analyze_error_pattern(...) raises
AnalyzeRaises ==
    /\ Running
    /\ Top.pc = "analyze"
    /\ Handler([Top EXCEPT !.analysed = @ + 1])
    /\ HelperUnchanged

\* for cmd in recovery_commands, with `lines` still to iterate and the
\* caller's activations `below`: blank lines are skipped; at the end of the
\* list return True, "Recovery completed successfully"; otherwise enter
\* self.execute_command(cmd, task_description, 0)
RecoverLoop(below, f, lines) ==
    LET rest == SkipBlank(lines) IN
    IF rest = << >>
    THEN Append(below, Return([f EXCEPT !.recovery = << >>], TRUE, "recovered"))
    ELSE below \o << [f EXCEPT !.pc = "call", !.recovery = Tail(rest),
                               !.ran = @ + 1],
                     NewFrame(Head(rest), RecoveryRetryCount, NoPrompt) >>

\* the nesting the model explores
DepthAllows(below, lines) ==
    SkipBlank(lines) # << >> => Len(below) + 1 < MaxDepth

\* recovery_commands = get_recovery_commands(...).split("\n"): never empty,
\* so `if recovery_commands:` always holds and the for loop starts
GetRecovery ==
    /\ Running
    /\ Top.pc = "get_recovery"
    /\ \E response \in Responses :
         /\ DepthAllows(SubSeq(stack, 1, Len(stack) - 1), response)
         /\ stack' = RecoverLoop(SubSeq(stack, 1, Len(stack) - 1),
                                 [Top EXCEPT !.asked = @ + 1], response)
    /\ UNCHANGED << command_context, appended >>
    /\ HelperUnchanged

\* get_recovery_commands(...) raises
GetRecoveryRaises ==
    /\ Running
    /\ Top.pc = "get_recovery"
    /\ Handler([Top EXCEPT !.asked = @ + 1])
    /\ HelperUnchanged

\* a nested activation returns to the recovery loop of its caller:
\* if not recovery_result[0]: return False, "Recovery failed: ...";
\* otherwise the loop goes on with the next line
ReturnToRecovery ==
    /\ Running
    /\ Len(stack) > 1
    /\ Top.pc = "ret"
    /\ LET caller == stack[Len(stack) - 1]
           below  == SubSeq(stack, 1, Len(stack) - 2)
       IN  IF Top.ok
           THEN /\ DepthAllows(below, caller.recovery)
                /\ stack' = RecoverLoop(below, caller, caller.recovery)
           ELSE stack' = Append(below, Return(caller, FALSE, "recovery_failed"))
    /\ UNCHANGED << command_context, appended >>
    /\ HelperUnchanged

\* success, output = self.execute_command(cmd, task, 3) returns to the for
\* loop of run_interactive: next command on success, break on failure
ReturnToLoop ==
    /\ Running
    /\ Len(stack) = 1
    /\ Top.pc = "ret"
    /\ IF ChainContinues(Top.ok)
       THEN EnterLoop(commands, idx + 1)
       ELSE /\ pc' = "prompt"
            /\ stack' = << >>
            /\ UNCHANGED << idx, topRuns >>
    /\ chainStopped' = (chainStopped \/ ~Top.ok)
    /\ UNCHANGED << trust_mode, max_retries, command_context, appended, task,
                    commands, lastError, endReason >>

-----------------------------------------------------------------------------

Next ==
    \/ ReadTask
    \/ InputRaises
    \/ GetCommands
    \/ GetCommandsRaises
    \/ ConfirmAll
    \/ ConfirmOne
    \/ KeyboardInterrupt
    \/ RunSubprocess
    \/ LaunchRaises
    \/ Analyze
    \/ AnalyzeRaises
    \/ GetRecovery
    \/ GetRecoveryRaises
    \/ ReturnToRecovery
    \/ ReturnToLoop

Spec == Init /\ [][Next]_vars

-----------------------------------------------------------------------------
(* _add_to_context called directly, any number of times *)

\* calls of _add_to_context explored by CtxSpec
MaxCtxAdds == 7

CtxCommands == { << "a" >>, << " ", "b" >> }

CtxInit ==
    /\ Init
    /\ trust_mode = FALSE
    /\ max_retries = DefaultMaxRetries

\* helper._add_to_context(command, output, success)
DirectAdd ==
    /\ Len(appended) < MaxCtxAdds
    /\ \E command \in CtxCommands, success \in BOOLEAN :
         /\ command_context' = AddToContext(command_context, Now, command, success)
         /\ appended' = Append(appended, Record(Now, command, success))
    /\ UNCHANGED << trust_mode, max_retries, pc, task, commands, idx, stack,
                    topRuns, chainStopped, lastError, endReason >>

CtxNext == DirectAdd

CtxSpec == CtxInit /\ [][CtxNext]_vars

-----------------------------------------------------------------------------
(* Properties *)

Frames == { stack[i] : i \in 1..Len(stack) }

\* activations that have reached a return statement
Returned == { f \in Frames : f.pc = "ret" }

\* the subprocess of activation f exited with a non-zero code
ExitedNonZero(f) == f.rc \in ExitCodes \ {0}

Min(a, b) == IF a <= b THEN a ELSE b

\* the last n elements of s (all of s when it is shorter)
LastN(s, n) == SubSeq(s, Len(s) - Min(Len(s), n) + 1, Len(s))

IsPrefix(p, s) == Len(p) <= Len(s) /\ p = SubSeq(s, 1, Len(p))

\* C1: in non-trust mode every activation of execute_command is the
\* top-level one for the current suggested command and was entered after the
\* user answered y (in either case) to the "Execute this command?" prompt
\* for that same command; no recovery command is ever executed.
C1_OnlyConfirmedCommandsRun ==
    ~trust_mode =>
        \A i \in 1..Len(stack) :
            /\ i = 1
            /\ stack[i].cmd = commands[idx]
            /\ stack[i].approval.cmd = stack[i].cmd
            /\ Lower(stack[i].approval.ans) = Yes

\* C1 witness: in non-trust mode a confirmed command has been run and failed
C1_Witness ==
    /\ ~trust_mode
    /\ Len(stack) = 1
    /\ stack[1].rc = 1
    /\ stack[1].approval = [cmd |-> stack[1].cmd, ans |-> << "Y" >>]

\* C2 (as claimed): execute_command returns True exactly when the subprocess
\* of its command exited with code 0.
C2_TrueIffExitZero ==
    \A f \in Returned : f.ok <=> (f.rc = 0)

\* C2 (amended): execute_command returns True exactly when the subprocess
\* exited with code 0 or the result is "Recovery completed successfully";
\* the latter happens only in trust mode, with retry_count >= max_retries,
\* after a non-zero exit and one analysis and one recovery request.  In
\* non-trust mode True is returned exactly on exit code 0.
C2_TrueIffExitZeroOrRecovered ==
    \A f \in Returned :
        /\ f.ok <=> (f.rc = 0 \/ f.msg = "recovered")
        /\ f.msg = "recovered" =>
               /\ trust_mode
               /\ f.retry >= max_retries
               /\ ExitedNonZero(f)
               /\ f.analysed = 1
               /\ f.asked = 1
        /\ ~trust_mode => (f.ok <=> (f.rc = 0))

\* C2 witness: True is returned for a command whose subprocess exited 1
C2_Witness ==
    \E f \in Returned : f.ok /\ f.rc = 1 /\ f.ran = 1

\* C3: the retry_count of every activation of execute_command is at most
\* max_retries.
C3_RetryWithinMax ==
    \A f \in Frames : f.retry <= max_retries

\* C4 (as claimed): every activation whose command exited non-zero has
\* asked the LLM about the failure (analysis or recovery commands) by the
\* time it returns, and its recovery requests do not exceed max_retries.
C4_FailureAlwaysReprompts ==
    \A f \in Returned :
        ExitedNonZero(f) => (f.analysed + f.asked >= 1 /\ f.asked <= max_retries)

\* C4 (amended): an activation whose command exited non-zero calls the LLM
\* only if retry_count >= max_retries: then it requests one error analysis
\* and, in trust mode only and if the analysis call returned, one list of
\* recovery commands; with retry_count < max_retries it makes no LLM call.
\* No activation makes more than one analysis or recovery request.
C4_RepromptOnlyAtRetryLimit ==
    /\ \A f \in Frames :
           /\ f.analysed \in {0, 1}
           /\ f.asked \in {0, 1}
           /\ f.asked <= f.analysed
           /\ f.asked = 1 => trust_mode
    /\ \A f \in Returned :
           ExitedNonZero(f) =>
               /\ f.analysed = (IF f.retry >= max_retries THEN 1 ELSE 0)
               /\ (trust_mode /\ f.analysed = 1 /\ f.msg # "exception")
                      => f.asked = 1
               /\ f.analysed = 0 => f.msg = "could_not_generate"

\* C4 witness: a failed command returns without any LLM call
C4_Witness ==
    \E f \in Returned :
        /\ ExitedNonZero(f)
        /\ f.retry < max_retries
        /\ f.analysed = 0
        /\ f.asked = 0

\* C5: after n calls of _add_to_context, command_context holds exactly the
\* min(n, 5) most recently appended records, in the order they were appended.
C5_KeepLastN ==
    /\ Len(command_context) = Min(Len(appended), ContextLimit)
    /\ command_context = LastN(appended, ContextLimit)

\* C5 witness: more than 5 records were appended and the oldest are gone
C5_Witness ==
    /\ Len(appended) = ContextLimit + 2
    /\ Len(command_context) = ContextLimit
    /\ command_context[1].timestamp = 3

\* C6: an exception (other than KeyboardInterrupt) raised while a task is
\* handled is logged and the loop is back at the task prompt; the session
\* ends only on the input exit (trimmed, in any case) or on a
\* KeyboardInterrupt, and a task being handled is never that input.
C6_OnlyExitOrInterruptEnds ==
    /\ endReason \in {"none", "exit", "interrupt"}
    /\ (pc = "done") <=> (endReason # "none")
    /\ endReason = "exit" => Lower(Strip(task)) = Exit
    /\ lastError # "none" => (pc = "prompt" \/ endReason = "interrupt")
    /\ pc \in {"suggest", "confirm_all", "confirm_one", "exec"}
           => Lower(Strip(task)) # Exit

\* C6 witness: an exception of the LLM call was logged and the loop is at
\* the task prompt again
C6_Witness ==
    /\ lastError = "llm"
    /\ pc = "prompt"
    /\ endReason = "none"

\* C7: a recovery command (a nested activation) never starts an
\* analysis/recovery round of its own.
C7_RecoveryNeverNests ==
    \A i \in 2..Len(stack) :
        /\ stack[i].analysed = 0
        /\ stack[i].asked = 0
        /\ stack[i].pc \notin {"analyze", "get_recovery", "call"}

\* C8: within one task the suggested commands are handed to
\* execute_command in the order returned, and once a command has failed or
\* a confirmation was declined the loop over this task's commands is left:
\* nothing is executed or prompted for until the next task is read.
C8_ChainStopsAtFirstStop ==
    /\ chainStopped => (pc \in {"prompt", "done"} /\ stack = << >>)
    /\ IsPrefix(topRuns, commands)
    /\ pc = "exec" => Len(topRuns) = idx
    /\ pc = "confirm_one" => Len(topRuns) = idx - 1

\* C8 witness: the first of two commands failed and the second was not run
C8_Witness ==
    /\ chainStopped
    /\ pc = "prompt"
    /\ Len(commands) = 2
    /\ Len(topRuns) = 1
    /\ Len(appended) >= 1

\* C9: "Recovery completed successfully" is returned only if at least one
\* recovery command was executed.
C9_RecoveredOnlyAfterRun ==
    \A f \in Returned : f.msg = "recovered" => f.ran >= 1

\* C10: an activation of execute_command that returns has appended exactly
\* one record for its own command.
C10_OneRecordPerCall ==
    \A f \in Returned : f.added = 1

====
